---- MODULE Spec2Model ----
\* Bookings report of a transport service (solution.py): a Service builds its
\* legs and origin-destination pairs (ODs) from an itinerary, routes a passenger
\* manifest into the ODs, and each OD reports its sales history and a forecast
\* that rations daily demand over a shared, depleting price-level inventory.
EXTENDS Integers, Sequences, FiniteSets, TLC

\* ---------------------------------------------------------------- bounds
\* stations the inputs are drawn from
NumStations == 3
\* longest itinerary
MaxStops == 3
\* longest manifest of the loading scenarios
MaxManifest == 2
\* longest manifest of the history scenarios
MaxBookings == 3
\* calls of load_passenger_manifest on one service
MaxLoads == 2
\* longest demand matrix of the bounded scenarios
MaxDays == 1
\* largest initial seat count of a price level
MaxInv == 2
\* largest demand entry
MaxDemand == 2

Stations == 1..NumStations

\* the forecast generators a caller holds: forecast is called twice
GenIds == {1, 2}

VARIABLES
    itinerary,      \* input: the station list given to load_itinerary
    manifest,       \* input: the passenger list given to load_passenger_manifest
    demand_matrix,  \* input: sequence of [day, demand], in dict iteration order
    pricing,        \* the caller's pricing dict: sequence of [price, count]
    pricing0,       \* history variable: pricing as first supplied
    legs,           \* Service.legs
    ods,            \* Service.ods in dict order: [origin, destination, passengers]
    loaded,         \* load_itinerary has been called
    loads,          \* number of load_passenger_manifest calls made
    error,          \* outcome of the last load_passenger_manifest call
    hist,           \* last history() call: [od, result]
    gens            \* forecast generators: frame of each, and what it yielded

vars == <<itinerary, manifest, demand_matrix, pricing, pricing0, legs, ods,
          loaded, loads, error, hist, gens>>

\* ---------------------------------------------------------------- helpers
RECURSIVE SeqsUpTo(_, _)
\* all sequences over S of length at most n
SeqsUpTo(S, n) ==
    IF n = 0 THEN {<<>>}
    ELSE LET shorter == SeqsUpTo(S, n - 1)
         IN shorter \cup {Append(s, x) : s \in {t \in shorter : Len(t) = n - 1}, x \in S}

RECURSIVE SumSeq(_)
SumSeq(s) == IF s = <<>> THEN 0 ELSE Head(s) + SumSeq(Tail(s))

RECURSIVE Concat(_)
Concat(ss) == IF ss = <<>> THEN <<>> ELSE Head(ss) \o Concat(Tail(ss))

Range(s) == {s[i] : i \in 1..Len(s)}

\* ---------------------------------------------------------------- entities
\* Leg objects compare by identity: id is the object's identity.
Leg(id, origin, destination) ==
    [id |-> id, origin |-> origin, destination |-> destination]

\* OD.__init__: a new OD has no passengers.
OD(origin, destination) ==
    [origin |-> origin, destination |-> destination, passengers |-> <<>>]

\* Passenger.__init__; id is the object's identity.
Passenger(id, origin, destination, sale_day_x, price) ==
    [id |-> id, origin |-> origin, destination |-> destination,
     sale_day_x |-> sale_day_x, price |-> price]

\* position of key (o, d) in the ods dict, 0 when absent
Lookup(m, o, d) ==
    IF \E k \in 1..Len(m) : m[k].origin = o /\ m[k].destination = d
    THEN CHOOSE k \in 1..Len(m) : m[k].origin = o /\ m[k].destination = d
    ELSE 0

\* self.ods[(o, d)] = OD(self, o, d): a new key is appended to the dict order,
\* an existing key keeps its place and gets the new object.
PutOD(m, o, d) ==
    LET k == Lookup(m, o, d)
    IN IF k = 0 THEN Append(m, OD(o, d)) ELSE [m EXCEPT ![k] = OD(o, d)]

\* ---------------------------------------------------------------- Service
RECURSIVE AddODs_SelfPair(_, _, _, _)
\* slip: the slice runs one station too far and pairs the station with itself
AddODs_SelfPair(m, it, i, p) ==
    IF p > i THEN m ELSE AddODs_SelfPair(PutOD(m, it[p], it[i]), it, i, p + 1)

RECURSIVE AddODs(_, _, _, _)
\* for prev in islice(itinerary, i): self.ods[(prev, station)] = OD(...)
\* (i is the 1-based position of station; prev runs over positions 1..i-1)
AddODs(m, it, i, p) ==
    IF p >= i THEN m ELSE AddODs(PutOD(m, it[p], it[i]), it, i, p + 1)

RECURSIVE load_itinerary(_, _, _, _)
\* the enumerate loop of Service.load_itinerary from position i on
load_itinerary(ls, m, it, i) ==
    IF i > Len(it) THEN [legs |-> ls, ods |-> m]
    ELSE IF i = 1 THEN load_itinerary(ls, m, it, i + 1)
    ELSE load_itinerary(Append(ls, Leg(Len(ls) + 1, it[i - 1], it[i])),
                        AddODs(m, it, i, 1), it, i + 1)

RECURSIVE load_passenger_manifest_Prepend(_, _, _)
\* slip: the passenger is inserted at the head of the OD's list
load_passenger_manifest_Prepend(m, ps, i) ==
    IF i > Len(ps) THEN [ods |-> m, error |-> "none"]
    ELSE LET k == Lookup(m, ps[i].origin, ps[i].destination)
         IN IF k = 0 THEN [ods |-> m, error |-> "KeyError"]
            ELSE load_passenger_manifest_Prepend(
                     [m EXCEPT ![k].passengers = <<ps[i]>> \o @], ps, i + 1)

RECURSIVE load_passenger_manifest_Skip(_, _, _)
\* slip: a passenger without an OD is skipped and the load goes on
load_passenger_manifest_Skip(m, ps, i) ==
    IF i > Len(ps) THEN [ods |-> m, error |-> "none"]
    ELSE LET k == Lookup(m, ps[i].origin, ps[i].destination)
         IN IF k = 0 THEN load_passenger_manifest_Skip(m, ps, i + 1)
            ELSE load_passenger_manifest_Skip(
                     [m EXCEPT ![k].passengers = Append(@, ps[i])], ps, i + 1)

RECURSIVE load_passenger_manifest(_, _, _)
\* the loop of Service.load_passenger_manifest from passenger i on; a missing
\* key raises KeyError out of the loop
load_passenger_manifest(m, ps, i) ==
    IF i > Len(ps) THEN [ods |-> m, error |-> "none"]
    ELSE LET k == Lookup(m, ps[i].origin, ps[i].destination)
         IN IF k = 0 THEN [ods |-> m, error |-> "KeyError"]
            ELSE load_passenger_manifest(
                     [m EXCEPT ![k].passengers = Append(@, ps[i])], ps, i + 1)

\* ---------------------------------------------------------------- OD.legs
RECURSIVE SecondLoop_ByDestination(_, _, _)
\* slip: the loop stops at the leg arriving at the destination, before yielding it
SecondLoop_ByDestination(ls, k, d) ==
    IF k > Len(ls) \/ ls[k].destination = d THEN <<>>
    ELSE <<ls[k]>> \o SecondLoop_ByDestination(ls, k + 1, d)

RECURSIVE SecondLoop(_, _, _)
\* for leg in legs: if leg.origin == self.destination: break; yield leg
SecondLoop(ls, k, d) ==
    IF k > Len(ls) \/ ls[k].origin = d THEN <<>>
    ELSE <<ls[k]>> \o SecondLoop(ls, k + 1, d)

RECURSIVE FirstLoop_Restart(_, _, _, _)
\* slip: the second loop iterates the list again instead of the same iterator,
\* so an origin that is never found still lets it run
FirstLoop_Restart(ls, k, o, d) ==
    IF k > Len(ls) THEN SecondLoop(ls, 1, d)
    ELSE IF ls[k].origin = o THEN <<ls[k]>> \o SecondLoop(ls, k + 1, d)
    ELSE FirstLoop_Restart(ls, k + 1, o, d)

RECURSIVE FirstLoop(_, _, _, _)
\* for leg in legs: if leg.origin == self.origin: yield leg; break
\* then the second loop goes on with the same iterator
FirstLoop(ls, k, o, d) ==
    IF k > Len(ls) THEN <<>>
    ELSE IF ls[k].origin = o THEN <<ls[k]>> \o SecondLoop(ls, k + 1, d)
    ELSE FirstLoop(ls, k + 1, o, d)

\* OD.legs of an OD (o, d) of a service whose legs are ls
OD_legs(ls, o, d) == FirstLoop(ls, 1, o, d)

\* ---------------------------------------------------------------- Leg.passengers
RECURSIVE LegPassengersFrom_FirstOnly(_, _, _, _)
\* slip: the loop ends at the first OD that contains the leg
LegPassengersFrom_FirstOnly(ls, m, leg, k) ==
    IF k > Len(m) THEN <<>>
    ELSE IF leg \in Range(OD_legs(ls, m[k].origin, m[k].destination))
         THEN m[k].passengers
         ELSE LegPassengersFrom_FirstOnly(ls, m, leg, k + 1)

RECURSIVE LegPassengersFrom(_, _, _, _)
\* for od in self.service.ods.values(): ... from position k of the dict
LegPassengersFrom(ls, m, leg, k) ==
    IF k > Len(m) THEN <<>>
    ELSE (IF leg \in Range(OD_legs(ls, m[k].origin, m[k].destination))
          THEN m[k].passengers ELSE <<>>)
         \o LegPassengersFrom(ls, m, leg, k + 1)

\* Leg.passengers of leg in a service with legs ls and ods m
Leg_passengers(ls, m, leg) == LegPassengersFrom(ls, m, leg, 1)

\* ---------------------------------------------------------------- OD.history
RECURSIVE InsertSorted(_, _)
\* insert p after every element whose key is lower than or equal to p's
InsertSorted(s, p) ==
    IF s = <<>> THEN <<p>>
    ELSE IF Head(s).sale_day_x <= p.sale_day_x
         THEN <<Head(s)>> \o InsertSorted(Tail(s), p)
         ELSE <<p>> \o s

\* slip: the passengers are grouped without being sorted
SortedBySaleDay_Unsorted(ps) == ps

RECURSIVE SortedBySaleDay(_)
\* sorted(self.passengers, key=lambda p: p.sale_day_x): a stable sort
SortedBySaleDay(ps) ==
    IF ps = <<>> THEN <<>>
    ELSE InsertSorted(SortedBySaleDay(SubSeq(ps, 1, Len(ps) - 1)), ps[Len(ps)])

RECURSIVE HistoryLoop(_, _, _, _)
\* the groupby loop of OD._history over the sorted passengers from position i,
\* with the running head_count and wallet: a triplet is yielded at the end of
\* each run of equal sale_day_x
HistoryLoop(s, i, head_count, wallet) ==
    IF i > Len(s) THEN <<>>
    ELSE LET hc == head_count + 1
             w == wallet + s[i].price
         IN IF i = Len(s) \/ s[i + 1].sale_day_x # s[i].sale_day_x
            THEN <<<<s[i].sale_day_x, hc, w>>>> \o HistoryLoop(s, i + 1, hc, w)
            ELSE HistoryLoop(s, i + 1, hc, w)

\* OD.history() of an OD holding passengers ps
history(ps) == HistoryLoop(SortedBySaleDay(ps), 1, 0, 0)

\* ---------------------------------------------------------------- OD.forecast
RECURSIVE PriceLoop_Break(_, _, _, _, _)
\* slip: the scan stops at the first price level that sells nothing
PriceLoop_Break(pr, demand, i, sold, money) ==
    IF i > Len(pr) THEN [pricing |-> pr, sold |-> sold, money |-> money]
    ELSE LET price == pr[i].price
             count == pr[i].count
             want == demand[price] - sold
             _sold == IF want < count THEN want ELSE count
         IN IF _sold <= 0 THEN [pricing |-> pr, sold |-> sold, money |-> money]
            ELSE PriceLoop_Break([pr EXCEPT ![i].count = @ - _sold], demand, i + 1,
                                 sold + _sold, money + price * _sold)

RECURSIVE PriceLoop_NoCap(_, _, _, _, _)
\* slip: the residual demand is sold without capping it at the seats left
PriceLoop_NoCap(pr, demand, i, sold, money) ==
    IF i > Len(pr) THEN [pricing |-> pr, sold |-> sold, money |-> money]
    ELSE LET price == pr[i].price
             _sold == demand[price] - sold
         IN IF _sold <= 0 THEN PriceLoop_NoCap(pr, demand, i + 1, sold, money)
            ELSE PriceLoop_NoCap([pr EXCEPT ![i].count = @ - _sold], demand, i + 1,
                                 sold + _sold, money + price * _sold)

RECURSIVE PriceLoop_Refill(_, _, _, _, _)
\* slip: the seats sold are added to the price level instead of taken from it
PriceLoop_Refill(pr, demand, i, sold, money) ==
    IF i > Len(pr) THEN [pricing |-> pr, sold |-> sold, money |-> money]
    ELSE LET price == pr[i].price
             count == pr[i].count
             want == demand[price] - sold
             _sold == IF want < count THEN want ELSE count
         IN IF _sold <= 0 THEN PriceLoop_Refill(pr, demand, i + 1, sold, money)
            ELSE PriceLoop_Refill([pr EXCEPT ![i].count = @ + _sold], demand, i + 1,
                                  sold + _sold, money + price * _sold)

RECURSIVE PriceLoop(_, _, _, _, _)
\* for price, count in pricing.items(): ... from position i of the dict, with
\* the day's sold and the running money
PriceLoop(pr, demand, i, sold, money) ==
    IF i > Len(pr) THEN [pricing |-> pr, sold |-> sold, money |-> money]
    ELSE LET price == pr[i].price
             count == pr[i].count
             want == demand[price] - sold
             _sold == IF want < count THEN want ELSE count
         IN IF _sold <= 0 THEN PriceLoop(pr, demand, i + 1, sold, money)
            ELSE PriceLoop([pr EXCEPT ![i].count = @ - _sold], demand, i + 1,
                           sold + _sold, money + price * _sold)

\* money = sum(passenger.price ...)
Revenue(ps) == SumSeq([i \in 1..Len(ps) |-> ps[i].price])

IdleGen ==
    [status |-> "idle", od |-> 0, day |-> 0, head_count |-> 0, money |-> 0,
     out |-> <<>>, seed_count |-> 0, seed_money |-> 0, seen |-> <<>>, after |-> {}]

\* ---------------------------------------------------------------- inputs
\* every station list of at most MaxStops stops, repeated stations included;
\* a station is an opaque object, so the lists are taken up to renaming: the
\* stations are numbered in the order the list first visits them
Itineraries ==
    {it \in SeqsUpTo(Stations, MaxStops) :
        \A i \in 1..Len(it) :
            \/ it[i] = 1
            \/ \E j \in 1..(i - 1) : it[j] = it[i] \/ it[j] = it[i] - 1}

\* manifests of the loading scenarios: any (origin, destination), one fare
LoadManifests ==
    {[i \in 1..Len(s) |-> Passenger(i, s[i][1], s[i][2], -1, 20)] :
        s \in SeqsUpTo(Stations \X Stations, MaxManifest)}

SaleDays == {-2, -1, 0}
\* Passenger.price takes any number: a negative one (a refund) included
Prices == {-5, 0, 20}

\* manifests of the history scenarios: bookings of the OD (1, 2)
HistoryManifests ==
    {[i \in 1..Len(s) |-> Passenger(i, 1, 2, s[i][1], s[i][2])] :
        s \in SeqsUpTo(SaleDays \X Prices, MaxBookings)}

PriceLevels == {2, 3}

\* pricing dicts over the price levels, in either key order
Pricings ==
    {<<[price |-> o[1], count |-> c[1]], [price |-> o[2], count |-> c[2]]>> :
        o \in {<<2, 3>>, <<3, 2>>}, c \in (0..MaxInv) \X (0..MaxInv)}

\* demand matrices of n days, the last day being day 0
DemandMatrices ==
    {[i \in 1..Len(s) |-> [day |-> i - Len(s), demand |-> s[i]]] :
        s \in SeqsUpTo([PriceLevels -> 0..MaxDemand], MaxDays)}

\* the example of solution.py, stations ply = 1, lpd = 2, msc = 3
WorkedItinerary == <<1, 2, 3>>
WorkedManifest ==
    <<Passenger(1, 1, 2, -30, 20), Passenger(2, 1, 2, -25, 30),
      Passenger(3, 1, 2, -20, 40), Passenger(4, 1, 2, -20, 40),
      Passenger(5, 1, 3, -10, 50)>>
WorkedPricing ==
    <<[price |-> 10, count |-> 0], [price |-> 20, count |-> 2],
      [price |-> 30, count |-> 5], [price |-> 40, count |-> 5],
      [price |-> 50, count |-> 5]>>
WorkedDemand(d) ==
    [day |-> d[1],
     demand |-> (10 :> d[2] @@ 20 :> d[3] @@ 30 :> d[4] @@ 40 :> d[5] @@ 50 :> d[6])]
WorkedDemandMatrix ==
    <<WorkedDemand(<<-7, 5, 1, 0, 0, 0>>), WorkedDemand(<<-6, 5, 2, 1, 1, 1>>),
      WorkedDemand(<<-5, 5, 4, 3, 2, 1>>), WorkedDemand(<<-4, 5, 5, 4, 3, 1>>),
      WorkedDemand(<<-3, 5, 5, 5, 3, 2>>), WorkedDemand(<<-2, 5, 5, 5, 4, 3>>),
      WorkedDemand(<<-1, 5, 5, 5, 5, 4>>), WorkedDemand(<<0, 5, 5, 5, 5, 5>>)>>
WorkedForecast ==
    <<<<-7, 5, 150>>, <<-6, 6, 170>>, <<-5, 9, 260>>, <<-4, 12, 360>>,
      <<-3, 15, 480>>, <<-2, 18, 620>>, <<-1, 21, 770>>, <<0, 21, 770>>>>

\* ---------------------------------------------------------------- initial states
\* Service.__init__: no legs, no ods; nothing called yet
Fresh ==
    /\ pricing0 = pricing
    /\ legs = <<>>
    /\ ods = <<>>
    /\ loaded = FALSE
    /\ loads = 0
    /\ error = "none"
    /\ hist = [od |-> 0, result |-> <<>>]
    /\ gens = [g \in GenIds |-> IdleGen]

InitLoad ==
    /\ itinerary \in Itineraries
    /\ manifest \in LoadManifests
    /\ pricing = <<[price |-> 2, count |-> 1]>>
    /\ demand_matrix = <<[day |-> 0, demand |-> (2 :> 1)]>>
    /\ Fresh

InitHistory ==
    /\ itinerary = <<1, 2>>
    /\ manifest \in HistoryManifests
    /\ pricing = <<[price |-> 2, count |-> 1]>>
    /\ demand_matrix = <<[day |-> 0, demand |-> (2 :> 1)]>>
    /\ Fresh

\* the service once itinerary it and then manifest m have been loaded
Loaded(it, m) ==
    LET built == load_itinerary(<<>>, <<>>, it, 1)
        filled == load_passenger_manifest(built.ods, m, 1)
    IN /\ pricing0 = pricing
       /\ legs = built.legs
       /\ ods = filled.ods
       /\ loaded = TRUE
       /\ loads = 1
       /\ error = filled.error
       /\ hist = [od |-> 0, result |-> <<>>]
       /\ gens = [g \in GenIds |-> IdleGen]

\* forecast scenarios start from a loaded service
InitBounded ==
    /\ itinerary = <<1, 2>>
    /\ manifest = <<Passenger(1, 1, 2, -1, 20)>>
    /\ pricing \in Pricings
    /\ demand_matrix \in DemandMatrices
    /\ Loaded(itinerary, manifest)

InitWorked ==
    /\ itinerary = WorkedItinerary
    /\ manifest = WorkedManifest
    /\ pricing = WorkedPricing
    /\ demand_matrix = WorkedDemandMatrix
    /\ Loaded(itinerary, manifest)

InitForecast == InitBounded \/ InitWorked

\* a fresh service with one booking, one price level and one day of demand
Init ==
    /\ itinerary \in {<<1, 2>>, <<1, 2, 3>>}
    /\ manifest \in {<<Passenger(1, 1, 2, -1, 20)>>, <<Passenger(1, 2, 1, -1, 20)>>}
    /\ pricing = <<[price |-> 2, count |-> 1]>>
    /\ demand_matrix = <<[day |-> 0, demand |-> (2 :> 1)]>>
    /\ Fresh

\* ---------------------------------------------------------------- actions
\* service.load_itinerary(itinerary), called once on the fresh service
LoadItinerary ==
    /\ ~loaded
    /\ LET r == load_itinerary(legs, ods, itinerary, 1)
       IN /\ legs' = r.legs
          /\ ods' = r.ods
    /\ loaded' = TRUE
    /\ UNCHANGED <<itinerary, manifest, demand_matrix, pricing, pricing0,
                   loads, error, hist, gens>>

\* service.load_passenger_manifest(manifest); the appends made before a
\* KeyError stay
LoadPassengerManifest ==
    /\ loads < MaxLoads
    /\ LET r == load_passenger_manifest(ods, manifest, 1)
       IN /\ ods' = r.ods
          /\ error' = r.error
    /\ loads' = loads + 1
    /\ UNCHANGED <<itinerary, manifest, demand_matrix, pricing, pricing0,
                   legs, loaded, hist, gens>>

\* od.history() on the k-th OD of the service
CallHistory(k) ==
    /\ k \in 1..Len(ods)
    /\ hist' = [od |-> k, result |-> history(ods[k].passengers)]
    /\ UNCHANGED <<itinerary, manifest, demand_matrix, pricing, pricing0,
                   legs, ods, loaded, loads, error, gens>>

\* od.forecast(pricing, demand_matrix) on the k-th OD: the generator object is
\* made, none of its body has run
StartForecast(g, k) ==
    /\ gens[g].status = "idle"
    /\ IF g = 1 THEN TRUE ELSE gens[g - 1].status # "idle"
    /\ k \in 1..Len(ods)
    /\ gens' = [gens EXCEPT ![g] = [IdleGen EXCEPT !.status = "created", !.od = k]]
    /\ UNCHANGED <<itinerary, manifest, demand_matrix, pricing, pricing0,
                   legs, ods, loaded, loads, error, hist>>

\* the frame of generator g once the lines before the day loop have run
Seeded(g) ==
    IF gens[g].status = "created"
    THEN [gens[g] EXCEPT
             !.money = Revenue(ods[gens[g].od].passengers),
             !.head_count = Len(ods[gens[g].od].passengers),
             !.seed_money = Revenue(ods[gens[g].od].passengers),
             !.seed_count = Len(ods[gens[g].od].passengers),
             !.after = {h \in GenIds : gens[h].status = "done"}]
    ELSE gens[g]

\* next(generator): runs the body up to the next yield, or to its end
StepForecast(g) ==
    /\ gens[g].status \in {"created", "running"}
    /\ LET f == Seeded(g)
       IN IF f.day < Len(demand_matrix)
          THEN LET d == demand_matrix[f.day + 1]
                   r == PriceLoop(pricing, d.demand, 1, 0, f.money)
               IN /\ pricing' = r.pricing
                  /\ gens' = [gens EXCEPT ![g] =
                        [f EXCEPT !.status = "running",
                                  !.day = f.day + 1,
                                  !.head_count = f.head_count + r.sold,
                                  !.money = r.money,
                                  !.out = Append(f.out,
                                      <<d.day, f.head_count + r.sold, r.money>>),
                                  !.seen = Append(f.seen, pricing)]]
          ELSE /\ pricing' = pricing
               /\ gens' = [gens EXCEPT ![g] = [f EXCEPT !.status = "done"]]
    /\ UNCHANGED <<itinerary, manifest, demand_matrix, pricing0,
                   legs, ods, loaded, loads, error, hist>>

NextLoad == LoadItinerary \/ LoadPassengerManifest

NextHistory ==
    \/ LoadItinerary
    \/ LoadPassengerManifest
    \/ \E k \in 1..(MaxStops * MaxStops) : CallHistory(k)

NextForecast ==
    \/ \E g \in GenIds, k \in 1..(MaxStops * MaxStops) : StartForecast(g, k)
    \/ \E g \in GenIds : StepForecast(g)

Next ==
    \/ LoadItinerary
    \/ LoadPassengerManifest
    \/ \E k \in 1..(MaxStops * MaxStops) : CallHistory(k)
    \/ \E g \in GenIds, k \in 1..(MaxStops * MaxStops) : StartForecast(g, k)
    \/ \E g \in GenIds : StepForecast(g)

SpecLoad == InitLoad /\ [][NextLoad]_vars
SpecHistory == InitHistory /\ [][NextHistory]_vars
SpecForecast == InitForecast /\ [][NextForecast]_vars
Spec == Init /\ [][Next]_vars

\* ================================================================ claims
N == Len(itinerary)
PosPairs == {pq \in (1..N) \X (1..N) : pq[1] < pq[2]}
Distinct(it) == \A i, j \in 1..Len(it) : i # j => it[i] # it[j]
Key(od) == <<od.origin, od.destination>>
BookedOn(o, d) == SelectSeq(manifest, LAMBDA p : p.origin = o /\ p.destination = d)

\* legs holds N-1 legs (none when N < 2), legs[k] going from itinerary[k] to
\* itinerary[k+1], each a distinct object
LegsFollowItinerary ==
    /\ Len(legs) = (IF N < 2 THEN 0 ELSE N - 1)
    /\ \A k \in 1..Len(legs) :
          legs[k] = Leg(k, itinerary[k], itinerary[k + 1])

\* every position pair i < j has its key in ods, and ods has no other key
KeysArePosPairs ==
    /\ \A pq \in PosPairs : Lookup(ods, itinerary[pq[1]], itinerary[pq[2]]) # 0
    /\ \A k \in 1..Len(ods) :
          \E pq \in PosPairs : Key(ods[k]) = <<itinerary[pq[1]], itinerary[pq[2]]>>
    /\ \A k, l \in 1..Len(ods) : k # l => Key(ods[k]) # Key(ods[l])

NoReverseKey ==
    \A k, l \in 1..Len(ods) :
        k # l => ~(ods[k].origin = ods[l].destination /\ ods[k].destination = ods[l].origin)

\* C1 as stated: after load_itinerary on any itinerary of length N, legs holds
\* the N-1 consecutive legs in order and ods holds exactly N*(N-1)/2 entries,
\* one per position pair i < j, with no reverse-direction key.
C1_AsStated ==
    loaded =>
        /\ LegsFollowItinerary
        /\ 2 * Len(ods) = N * (N - 1)
        /\ KeysArePosPairs
        /\ NoReverseKey

\* C1 amended: after load_itinerary on any itinerary of length N, legs holds the
\* N-1 consecutive legs in order and ods holds one entry per distinct key
\* (itinerary[i], itinerary[j]), i < j; when the stations are pairwise distinct
\* these are exactly N*(N-1)/2 entries and no key is the reverse of another.
C1_LoadItinerary ==
    loaded =>
        /\ LegsFollowItinerary
        /\ KeysArePosPairs
        /\ Distinct(itinerary) => (2 * Len(ods) = N * (N - 1) /\ NoReverseKey)

C1_Witness ==
    /\ loaded
    /\ N = 3
    /\ Distinct(itinerary)
    /\ Len(legs) = 2
    /\ Len(ods) = 3

\* C2: for an itinerary of pairwise distinct stations and every i < j, the legs
\* of the OD (itinerary[i], itinerary[j]) are exactly legs[i .. j-1]: the full
\* span gives all legs, a destination at the last station runs to the end of
\* legs, a consecutive pair gives one leg.
C2_ODLegsSlice ==
    (loaded /\ Distinct(itinerary)) =>
        /\ \A pq \in PosPairs :
              OD_legs(legs, itinerary[pq[1]], itinerary[pq[2]])
                  = SubSeq(legs, pq[1], pq[2] - 1)
        /\ N >= 2 => OD_legs(legs, itinerary[1], itinerary[N]) = legs
        /\ \A i \in 1..(N - 1) :
              /\ Len(OD_legs(legs, itinerary[i], itinerary[i + 1])) = 1
              /\ OD_legs(legs, itinerary[i], itinerary[N]) = SubSeq(legs, i, Len(legs))

C2_Witness ==
    /\ loaded
    /\ N = 3
    /\ Distinct(itinerary)
    /\ OD_legs(legs, itinerary[1], itinerary[3]) = legs
    /\ OD_legs(legs, itinerary[1], itinerary[2]) = <<legs[1]>>
    /\ OD_legs(legs, itinerary[2], itinerary[3]) = <<legs[2]>>

\* C3: after load_itinerary and one successful load_passenger_manifest, each OD
\* holds exactly the manifest's passengers booked on its key, once each and in
\* manifest order, every passenger's key is an OD, and the OD passenger counts
\* sum to the length of the manifest.
C3_ManifestRouted ==
    (loaded /\ loads = 1 /\ error = "none") =>
        /\ \A i \in 1..Len(manifest) :
              Lookup(ods, manifest[i].origin, manifest[i].destination) # 0
        /\ \A k \in 1..Len(ods) :
              ods[k].passengers = BookedOn(ods[k].origin, ods[k].destination)
        /\ SumSeq([k \in 1..Len(ods) |-> Len(ods[k].passengers)]) = Len(manifest)

C3_Witness ==
    /\ loaded
    /\ loads = 1
    /\ error = "none"
    /\ Len(manifest) = 2
    /\ \E k \in 1..Len(ods) : ods[k].passengers = manifest

\* the ODs whose span (by itinerary position) includes leg l
Spans(k, l) ==
    \E pq \in PosPairs :
        /\ Key(ods[k]) = <<itinerary[pq[1]], itinerary[pq[2]]>>
        /\ pq[1] <= l
        /\ l <= pq[2] - 1

\* a passenger booked on OD(itinerary[i], itinerary[j]) rides legs i .. j-1 and
\* no other leg, and a leg's passengers are those of the ODs spanning it, in OD
\* order then insertion order
LegsCarrySpanningODs ==
    \A l \in 1..Len(legs) :
        /\ \A k \in 1..Len(ods) :
              (legs[l] \in Range(OD_legs(legs, ods[k].origin, ods[k].destination)))
                  <=> (\A pq \in PosPairs :
                          Key(ods[k]) = <<itinerary[pq[1]], itinerary[pq[2]]>>
                              => (pq[1] <= l /\ l <= pq[2] - 1))
        /\ Leg_passengers(legs, ods, legs[l])
              = Concat([k \in 1..Len(ods) |->
                            IF Spans(k, l) THEN ods[k].passengers ELSE <<>>])
        /\ Len(Leg_passengers(legs, ods, legs[l]))
              = SumSeq([k \in 1..Len(ods) |->
                            IF Spans(k, l) THEN Len(ods[k].passengers) ELSE 0])

\* C4 as stated: for every leg of every loaded service, the leg's passengers
\* are those of the ODs spanning it and a passenger booked on
\* OD(itinerary[i], itinerary[j]) is counted on legs i .. j-1 and no other.
C4_AsStated == loaded => LegsCarrySpanningODs

\* C4 amended: the same for every service loaded from an itinerary of pairwise
\* distinct stations.
C4_LegPassengers == (loaded /\ Distinct(itinerary)) => LegsCarrySpanningODs

C4_Witness ==
    /\ loaded
    /\ N = 3
    /\ Distinct(itinerary)
    /\ loads = 1
    /\ Len(manifest) = 2
    /\ manifest[1].origin = itinerary[1] /\ manifest[1].destination = itinerary[3]
    /\ Leg_passengers(legs, ods, legs[1]) = <<manifest[2], manifest[1]>>
    /\ Leg_passengers(legs, ods, legs[2]) = <<manifest[1]>>

\* passengers of the manifest before the first one whose key is no OD of m
LoadablePrefix(m) ==
    LET bad == {i \in 1..Len(manifest) :
                   Lookup(m, manifest[i].origin, manifest[i].destination) = 0}
    IN IF bad = {} THEN manifest
       ELSE SubSeq(manifest, 1, (CHOOSE i \in bad : \A j \in bad : i <= j) - 1)

\* C9: a call of load_passenger_manifest raises the lookup error exactly when
\* some passenger's key is no OD; the passengers before the first such one are
\* appended to their ODs, that one and all after it to none, and without an
\* error every passenger is appended.
C9_FailFast ==
    [][loads' = loads + 1 =>
        LET done == LoadablePrefix(ods)
        IN /\ error' = (IF Len(done) = Len(manifest) THEN "none" ELSE "KeyError")
           /\ Len(ods') = Len(ods)
           /\ \A k \in 1..Len(ods) :
                 /\ Key(ods'[k]) = Key(ods[k])
                 /\ ods'[k].passengers = ods[k].passengers \o
                        SelectSeq(done, LAMBDA p : <<p.origin, p.destination>> = Key(ods[k]))]_vars

C9_Witness ==
    /\ loaded
    /\ loads = 1
    /\ error = "KeyError"
    /\ Len(manifest) = 2
    /\ \E k \in 1..Len(ods) : ods[k].passengers = <<manifest[1]>>
    /\ \A k \in 1..Len(ods) : manifest[2] \notin Range(ods[k].passengers)

\* (o, d) is no pair of the itinerary taken in order: d is the first station,
\* the pair is reversed, or o or d is not on the itinerary
Inconsistent(o, d) ==
    ~ \E pq \in PosPairs : itinerary[pq[1]] = o /\ itinerary[pq[2]] = d

\* an OD (o, d) holding a passenger gives no leg of the service a passenger:
\* Leg.passengers, run over that OD, returns nothing for every leg
ContributesNowhere(o, d) ==
    LET extra == [OD(o, d) EXCEPT !.passengers = <<Passenger(0, o, d, -1, 20)>>]
    IN \A l \in 1..Len(legs) : Leg_passengers(legs, <<extra>>, legs[l]) = <<>>

\* C10 as stated: an OD whose (origin, destination) is not consistent with the
\* itinerary (here already one of pairwise distinct stations) has no legs and
\* contributes its passengers to no leg.
C10_AsStated ==
    (loaded /\ Distinct(itinerary)) =>
        \A o, d \in Stations :
            Inconsistent(o, d) =>
                (OD_legs(legs, o, d) = <<>> /\ ContributesNowhere(o, d))

\* C10 amended: an OD has no legs, and contributes its passengers to no leg,
\* exactly when its origin is the origin of no leg of the service (the origin
\* is off the itinerary or is only its last station); any other OD, reversed
\* pairs and destinations off the itinerary included, has the legs from the
\* first leg leaving its origin on.
C10_EmptyLegs ==
    loaded =>
        \A o, d \in Stations :
            IF \A l \in 1..Len(legs) : legs[l].origin # o
            THEN OD_legs(legs, o, d) = <<>> /\ ContributesNowhere(o, d)
            ELSE /\ OD_legs(legs, o, d) # <<>>
                 /\ Head(OD_legs(legs, o, d)).origin = o
                 /\ ~ContributesNowhere(o, d)

C10_Witness ==
    /\ loaded
    /\ itinerary = <<1, 2>>
    /\ OD_legs(legs, 2, 1) = <<>>
    /\ OD_legs(legs, 3, 2) = <<>>
    /\ OD_legs(legs, 1, 3) = legs

\* ---------------------------------------------------------------- history
SaleDaysOf(ps) == {ps[i].sale_day_x : i \in 1..Len(ps)}
SoldBy(ps, day) == SelectSeq(ps, LAMBDA p : p.sale_day_x <= day)

\* h is the sales history of the passengers ps, but for the growth of revenue
HistoryOf(h, ps) ==
    /\ Len(h) = Cardinality(SaleDaysOf(ps))
    /\ {h[t][1] : t \in 1..Len(h)} = SaleDaysOf(ps)
    /\ \A t, u \in 1..Len(h) : t < u => (h[t][1] < h[u][1] /\ h[t][2] <= h[u][2])
    /\ \A t \in 1..Len(h) :
          /\ h[t][2] = Len(SoldBy(ps, h[t][1]))
          /\ h[t][3] = Revenue(SoldBy(ps, h[t][1]))
    /\ ps = <<>> => h = <<>>
    /\ ps # <<>> => (h[Len(h)][2] = Len(ps) /\ h[Len(h)][3] = Revenue(ps))

\* the revenue never falls from one triplet of h to the next
RevenueNonDecreasing(h) == \A t, u \in 1..Len(h) : t < u => h[t][3] <= h[u][3]

NoNegativePrice(ps) == \A i \in 1..Len(ps) : ps[i].price >= 0

\* the passengers a history() call can have found: the manifest, loaded n times
LoadedTimes(n) == Concat([i \in 1..n |-> manifest])

\* C5 as stated: for every collection of passengers of an OD, history() has one
\* triplet per distinct sale day, days strictly ascending, count and revenue
\* non-decreasing, each triplet counting the passengers sold on or before its
\* day and summing their prices, the last one reaching the OD's passenger count
\* and total revenue; no passengers, no triplets.
C5_AsStated ==
    /\ \A k \in 1..Len(ods) :
          /\ HistoryOf(history(ods[k].passengers), ods[k].passengers)
          /\ RevenueNonDecreasing(history(ods[k].passengers))
    /\ hist.od # 0 =>
          \E n \in 0..MaxLoads :
              /\ hist.result = history(LoadedTimes(n))
              /\ HistoryOf(hist.result, LoadedTimes(n))
              /\ RevenueNonDecreasing(hist.result)

\* C5 amended: the same for every collection of passengers, except that the
\* revenue is non-decreasing along the sequence when no passenger of the OD has
\* a negative price; the result of a history() call is that of the OD's
\* passengers at the call.
C5_History ==
    /\ \A k \in 1..Len(ods) :
          /\ HistoryOf(history(ods[k].passengers), ods[k].passengers)
          /\ NoNegativePrice(ods[k].passengers)
                => RevenueNonDecreasing(history(ods[k].passengers))
    /\ hist.od # 0 =>
          \E n \in 0..MaxLoads :
              /\ hist.result = history(LoadedTimes(n))
              /\ HistoryOf(hist.result, LoadedTimes(n))
              /\ NoNegativePrice(LoadedTimes(n)) => RevenueNonDecreasing(hist.result)

\* bookings loaded out of sale-day order, two on one day, none at a negative
\* price, and a history() call that found them
C5_Witness ==
    /\ hist.od # 0
    /\ Len(ods[hist.od].passengers) = 3
    /\ NoNegativePrice(ods[hist.od].passengers)
    /\ ods[hist.od].passengers[1].sale_day_x = -1
    /\ ods[hist.od].passengers[2].sale_day_x = -2
    /\ ods[hist.od].passengers[3].sale_day_x = -1
    /\ hist.result = history(ods[hist.od].passengers)
    /\ Len(hist.result) = 2
    /\ hist.result[2][2] = 3
    /\ hist.result[1][3] < hist.result[2][3]

\* ---------------------------------------------------------------- forecast
RECURSIVE Fills(_, _, _, _)
\* seats taken from each price level of inventory pr on one day, as the claim
\* states it: scanning from level t with the day's sold so far,
\* want = demand[p] - sold, fill = min(want, count), and a level with fill <= 0
\* gives nothing and does not stop the scan
Fills(pr, demand, t, sold) ==
    IF t > Len(pr) THEN <<>>
    ELSE LET want == demand[pr[t].price] - sold
             least == IF want < pr[t].count THEN want ELSE pr[t].count
             fill == IF least <= 0 THEN 0 ELSE least
         IN <<fill>> \o Fills(pr, demand, t + 1, sold + fill)

DaySold(pr, demand) == SumSeq(Fills(pr, demand, 1, 0))
DayRevenue(pr, demand) ==
    LET fills == Fills(pr, demand, 1, 0)
    IN SumSeq([t \in 1..Len(pr) |-> pr[t].price * fills[t]])

\* generator g ran alone: the other generators yielded nothing before it ended
RanAlone(g) ==
    \A h \in GenIds \ {g} : gens[h].out = <<>> \/ g \in gens[h].after

\* C6: a forecast yields its triplets in demand_matrix order, len(demand_matrix)
\* of them once consumed; triplet k is (day_k, C0 + seats sold on days 1..k,
\* R0 + revenue of days 1..k), C0 and R0 being the count and summed price of the
\* OD's passengers and each day being rationed over the price levels, in
\* pricing order, against the inventory it finds; the worked scenario yields
\* the list of solution.py.
C6_Forecast ==
    \A g \in GenIds :
        LET f == gens[g]
        IN /\ Len(f.out) <= Len(demand_matrix)
           /\ f.status = "done" => Len(f.out) = Len(demand_matrix)
           /\ f.out # <<>> =>
                 /\ f.seed_count = Len(ods[f.od].passengers)
                 /\ f.seed_money = Revenue(ods[f.od].passengers)
           /\ \A k \in 1..Len(f.out) :
                 /\ f.out[k][1] = demand_matrix[k].day
                 /\ f.out[k][2] = (IF k = 1 THEN f.seed_count ELSE f.out[k - 1][2])
                        + DaySold(f.seen[k], demand_matrix[k].demand)
                 /\ f.out[k][3] = (IF k = 1 THEN f.seed_money ELSE f.out[k - 1][3])
                        + DayRevenue(f.seen[k], demand_matrix[k].demand)
           /\ (/\ f.status = "done"
               /\ pricing0 = WorkedPricing
               /\ f.od = 1
               /\ f.seen[1] = pricing0
               /\ RanAlone(g)) => f.out = WorkedForecast

C6_Witness ==
    \E g \in GenIds :
        /\ gens[g].status = "done"
        /\ pricing0 = WorkedPricing
        /\ gens[g].od = 1
        /\ gens[g].seed_count = 4
        /\ gens[g].seed_money = 130
        /\ gens[g].out = WorkedForecast

Decrease(i) == pricing0[i].count - pricing[i].count

\* the inventory is conserved: what left pricing is what the generators sold
InventoryConserved ==
    /\ Len(pricing) = Len(pricing0)
    /\ \A i \in 1..Len(pricing) :
          /\ pricing[i].price = pricing0[i].price
          /\ 0 <= pricing[i].count
          /\ pricing[i].count <= pricing0[i].count
    /\ \A g \in GenIds :
          gens[g].out # <<>> =>
              /\ gens[g].out[Len(gens[g].out)][2] = gens[g].head_count
              /\ gens[g].out[Len(gens[g].out)][3] = gens[g].money
    /\ SumSeq([i \in 1..Len(pricing) |-> Decrease(i)])
          = SumSeq([g \in 1..Cardinality(GenIds) |->
                        gens[g].head_count - gens[g].seed_count])
    /\ SumSeq([i \in 1..Len(pricing) |-> pricing[i].price * Decrease(i)])
          = SumSeq([g \in 1..Cardinality(GenIds) |->
                        gens[g].money - gens[g].seed_money])

\* a step of a forecast never raises a seat count and changes nothing but
\* pricing (and the generator itself)
OnlyPricingShrinks ==
    /\ \A i \in 1..Len(pricing) : pricing'[i].count <= pricing[i].count
    /\ UNCHANGED <<legs, ods, demand_matrix, itinerary, manifest>>

\* C7: through any forecast runs sharing one pricing of non-negative counts,
\* partial or interleaved, each count stays between 0 and its initial value and
\* never increases, the keys stay, the total decrease is the seats sold over
\* all emitted days, the revenue emitted over the seeds is the sum of price
\* times decrease, and only pricing changes.
C7_PricingDepletes == []InventoryConserved /\ [][OnlyPricingShrinks]_vars

\* two generators interleaved: 1 yields a day, 2 yields a day, 1 yields again
C7_Witness ==
    /\ gens[1].status = "running"
    /\ gens[2].status = "running"
    /\ Len(gens[1].out) = 2
    /\ Len(gens[2].out) = 1
    /\ gens[1].seen[1] = pricing0
    /\ gens[2].seen[1] # pricing0
    /\ gens[1].seen[2] # gens[2].seen[1]
    /\ gens[2].head_count > gens[2].seed_count
    /\ \E i \in 1..Len(pricing) : pricing[i].count > 0 /\ Decrease(i) > 0

\* seats sold on day k by generator g
SoldOn(g, k) ==
    gens[g].out[k][2] - (IF k = 1 THEN gens[g].seed_count ELSE gens[g].out[k - 1][2])

\* C8: when forecast is consumed to the end twice on the same OD with the same
\* pricing object and demand_matrix, each day's sold of the second run is at
\* most that day's sold of the first run.
C8_SecondRunSellsNoMore ==
    \A g, h \in GenIds :
        (/\ gens[g].status = "done"
         /\ gens[h].status = "done"
         /\ g \in gens[h].after
         /\ gens[g].od = gens[h].od)
            => \A k \in 1..Len(demand_matrix) : SoldOn(h, k) <= SoldOn(g, k)

\* demand rising with the price, and a second run that still sells, but less
C8_Witness ==
    /\ gens[1].status = "done"
    /\ gens[2].status = "done"
    /\ 1 \in gens[2].after
    /\ gens[1].od = gens[2].od
    /\ Len(demand_matrix) >= 1
    /\ pricing[1].price < pricing[2].price
    /\ demand_matrix[1].demand[pricing[1].price] < demand_matrix[1].demand[pricing[2].price]
    /\ SoldOn(2, 1) > 0
    /\ SoldOn(2, 1) < SoldOn(1, 1)

====
